---- MODULE Spec2Model ----
(***************************************************************************)
(* A model of chainercv.visualizations.vis_label (vis_label.py).           *)
(*                                                                         *)
(* One behaviour of the model is one call of vis_label: Init is the state  *)
(* at function entry, with the arguments drawn from bounded sets, and each *)
(* action is one block of statements of the function body.  The numpy and  *)
(* matplotlib operations the body uses are modelled by what they compute:  *)
(*   - label / (n_class - 1) is numpy's true division of an integer array  *)
(*     (a zero divisor gives nan, inf or -inf and a warning, no exception);*)
(*   - l / (n_class - 1) is Python's true division when n_class comes from *)
(*     len() (a zero divisor raises ZeroDivisionError) and numpy's when    *)
(*     n_class comes from label.max();                                     *)
(*   - cmap(x) is matplotlib's Colormap.__call__: it returns RGBA (four    *)
(*     channels), the entry floor(x * N) of an N-entry table, the last     *)
(*     entry for x >= 1, the first for x < 0, and the "bad" colour         *)
(*     (0, 0, 0, 0) for nan;                                               *)
(*   - img[label < 0] = value is numpy's masked assignment: value is       *)
(*     broadcast against the (k, 4) selection, which fails with a          *)
(*     ValueError when value has 3 components.                             *)
(* Floats in [0, 1] are exact fractions <<num, den>> in lowest terms; for  *)
(* the divisors within the bounds the exact quotient and the IEEE double   *)
(* select the same table entry.                                            *)
(***************************************************************************)
EXTENDS Integers, Sequences, FiniteSets, TLC

\* Bounds of the model.
MaxClass == 3
MaxLabel == 2
NPix == 2

\* [0, 255] -> [0, 1]
Scale == 255
\* matplotlib's default colormap has 256 entries.
DefaultN == 256
\* Colormap.__call__ returns RGBA.
ImgChannels == 4

VARIABLES
    pc,             \* the block of vis_label to run next
    outcome,        \* "running", "returned" or the exception raised
    label,          \* the caller's label grid, flattened: pixel -> class id
    arg_names,      \* the caller's label_names (None or Some(seq))
    arg_colors,     \* the caller's colors (None or Some(seq of RGB))
    arg_ignore,     \* the caller's ignore_color
    arg_ax,         \* the caller's ax (None or Some("given"))
    pre,            \* the arguments as they were at entry
    n_class,        \* local n_class (None until line 64-69 ran)
    label_names,    \* local label_names
    colors,         \* local colors
    cmap,           \* local cmap
    img,            \* local img: pixel -> RGBA (<<>> until line 86 ran)
    ax,             \* local ax
    figs,           \* figures created by plot.figure()
    shown,          \* per axis, the images handed to imshow
    built,          \* exception objects constructed and dropped
    l,              \* index of the legend loop
    legend_handles, \* local legend_handles
    ret             \* the returned pair (None until line 103 ran)

vars == <<pc, outcome, label, arg_names, arg_colors, arg_ignore, arg_ax, pre,
          n_class, label_names, colors, cmap, img, ax, figs, shown, built, l,
          legend_handles, ret>>

args == <<label, arg_names, arg_colors, arg_ignore, arg_ax, pre>>

----------------------------------------------------------------------------
\* Python's optional values.
None == <<>>
Some(x) == <<x>>
Get(o) == o[1]

Pixels == 1..NPix

Abs(i) == IF i < 0 THEN -i ELSE i

RECURSIVE GCD(_, _)
GCD(a, b) == IF b = 0 THEN a ELSE GCD(b, a % b)

\* The float n / d, 0 <= n, 0 < d, as a fraction in lowest terms.
Frac(n, d) == LET g == GCD(n, d) IN <<n \div g, d \div g>>

Zero == Frac(0, 1)
One == Frac(1, 1)

\* (r / 255, g / 255, b / 255) and np.array(ignore_color) / 255
Div255(c) == [i \in 1..Len(c) |-> Frac(c[i], Scale)]

\* matplotlib converts a listed RGB colour to RGBA with alpha 1.
ToRGBA(c) == c \o <<One>>

\* label.max()
RECURSIVE MaxOf(_)
MaxOf(S) == LET x == CHOOSE y \in S : TRUE
            IN IF S = {x} THEN x
               ELSE LET m == MaxOf(S \ {x}) IN IF x > m THEN x ELSE m

LabelMax == MaxOf({label[p] : p \in Pixels})

\* str(i)
Str(i) == ToString(i)

\* numpy: integer / integer scalar, element-wise true division.
NpDivide(v, d) ==
    IF d = 0
    THEN [k |-> IF v > 0 THEN "inf" ELSE IF v < 0 THEN "-inf" ELSE "nan",
          n |-> 0, d |-> 1]
    ELSE [k |-> "fin", n |-> IF d < 0 THEN -v ELSE v, d |-> Abs(d)]

\* Entry i (0-based) of a colormap's table.  The default colormap's table is
\* matplotlib data; its entry i is modelled as the opaque grey i / 255.
CmapEntry(cm, i) ==
    IF cm.listed THEN cm.lut[i + 1]
    ELSE <<Frac(i, Scale), Frac(i, Scale), Frac(i, Scale), One>>

\* Colormap.__call__: the table index of a float that is not nan.
CmapIndex(cm, x) ==
    IF x.k = "inf" THEN cm.N - 1
    ELSE IF x.k = "-inf" THEN 0
    ELSE IF x.n < 0 THEN 0
    ELSE IF x.n * cm.N >= cm.N * x.d THEN cm.N - 1
    ELSE (x.n * cm.N) \div x.d

BadColor == <<Zero, Zero, Zero, Zero>>

CmapCall(cm, x) == IF x.k = "nan" THEN BadColor ELSE CmapEntry(cm, CmapIndex(cm, x))

\* n_class is a numpy integer when it comes from label.max(), a Python int
\* when it comes from len().
NClassIsNumpy == arg_names = None /\ arg_colors = None

----------------------------------------------------------------------------
\* The arguments of a call.
ClassNames == <<"bg", "fg", "car", "dog", "cat", "bus">>
NameChoices == {None} \cup {Some(SubSeq(ClassNames, 1, n)) : n \in 1..MaxClass}

RGBChoices == {<<255, 0, 0>>, <<0, 128, 255>>}
ColorChoices ==
    {None} \cup {Some(c) : c \in UNION {[1..n -> RGBChoices] : n \in 1..MaxClass}}

\* The documented ignore_color is an RGB triple (default (0, 0, 0)); a caller
\* can also hand in four components.
IgnoreChoices == {<<0, 0, 0>>, <<10, 20, 30>>, <<10, 20, 30, 255>>}

AxChoices == {None, Some("given")}

Init ==
    /\ pc = "resolve"
    /\ outcome = "running"
    /\ label \in [Pixels -> -1..MaxLabel]
    /\ arg_names \in NameChoices
    /\ arg_colors \in ColorChoices
    /\ arg_ignore \in IgnoreChoices
    /\ arg_ax \in AxChoices
    /\ pre = [label |-> label, label_names |-> arg_names, colors |-> arg_colors,
              ignore_color |-> arg_ignore]
    /\ n_class = None
    /\ label_names = arg_names
    /\ colors = arg_colors
    /\ cmap = None
    /\ img = <<>>
    /\ ax = arg_ax
    /\ figs = 0
    /\ shown = [a \in {"given", "new"} |-> <<>>]
    /\ built = {}
    /\ l = 0
    /\ legend_handles = <<>>
    /\ ret = None

\* lines 64-69
ResolveNClass ==
    /\ pc = "resolve"
    /\ n_class' = Some(IF label_names # None THEN Len(Get(label_names))
                       ELSE IF colors # None THEN Len(Get(colors))
                       ELSE LabelMax)
    /\ pc' = "check_colors"
    /\ UNCHANGED <<outcome, label_names, colors, cmap, img, ax, figs, shown,
                   built, l, legend_handles, ret>>
    /\ UNCHANGED args

\* lines 71-72: the ValueError is constructed, not raised.
CheckColors ==
    /\ pc = "check_colors"
    /\ built' = IF colors # None /\ ~(Len(Get(colors)) = Get(n_class))
                THEN built \cup {"InvalidColorCount"}
                ELSE built
    /\ pc' = "check_range"
    /\ UNCHANGED <<outcome, n_class, label_names, colors, cmap, img, ax, figs,
                   shown, l, legend_handles, ret>>
    /\ UNCHANGED args

\* lines 73-74: the ValueError is constructed, not raised.
CheckRange ==
    /\ pc = "check_range"
    /\ built' = IF LabelMax >= Get(n_class)
                THEN built \cup {"OutOfRangeClass"}
                ELSE built
    /\ pc' = "names"
    /\ UNCHANGED <<outcome, n_class, label_names, colors, cmap, img, ax, figs,
                   shown, l, legend_handles, ret>>
    /\ UNCHANGED args

\* line 77: [str(l) for l in range(label.max() + 1)]
SynthNames == [i \in 1..(IF LabelMax + 1 > 0 THEN LabelMax + 1 ELSE 0) |-> Str(i - 1)]

\* lines 76-77
DefaultNames ==
    /\ pc = "names"
    /\ label_names' = IF label_names = None THEN Some(SynthNames) ELSE label_names
    /\ pc' = "cmap"
    /\ UNCHANGED <<outcome, n_class, colors, cmap, img, ax, figs, shown, built,
                   l, legend_handles, ret>>
    /\ UNCHANGED args

\* line 83
NormalizedColors(cs) == [i \in 1..Len(cs) |-> Div255(cs[i])]

\* line 84
ListedColormap(cs) ==
    [listed |-> TRUE, N |-> Len(cs), lut |-> [i \in 1..Len(cs) |-> ToRGBA(cs[i])]]

\* line 80
GetCmap == [listed |-> FALSE, N |-> DefaultN, lut |-> <<>>]

\* lines 79-84
BuildCmap ==
    /\ pc = "cmap"
    /\ IF colors = None
       THEN /\ cmap' = Some(GetCmap)
            /\ colors' = colors
       ELSE /\ colors' = Some(NormalizedColors(Get(colors)))
            /\ cmap' = Some(ListedColormap(NormalizedColors(Get(colors))))
    /\ pc' = "img"
    /\ UNCHANGED <<outcome, n_class, label_names, img, ax, figs, shown, built,
                   l, legend_handles, ret>>
    /\ UNCHANGED args

\* line 86: cmap(label / (n_class - 1))
PixelColor(cm, v, nc) == CmapCall(cm, NpDivide(v, nc - 1))

ComputeImg ==
    /\ pc = "img"
    /\ img' = [p \in Pixels |-> PixelColor(Get(cmap), label[p], Get(n_class))]
    /\ pc' = "ignore"
    /\ UNCHANGED <<outcome, n_class, label_names, colors, cmap, ax, figs, shown,
                   built, l, legend_handles, ret>>
    /\ UNCHANGED args

\* line 90: whether a 1-d value of n components broadcasts against the
\* (k, 4) selection img[label < 0].
Broadcasts(n) == n = ImgChannels \/ n = 1

\* lines 88-90
OverwriteIgnored ==
    /\ pc = "ignore"
    /\ LET ignore_color == Div255(arg_ignore) IN
       \/ /\ Broadcasts(Len(ignore_color))
          /\ img' = [p \in Pixels |-> IF label[p] < 0 THEN ignore_color ELSE img[p]]
          /\ pc' = "ax"
          /\ outcome' = outcome
       \/ /\ ~Broadcasts(Len(ignore_color))
          /\ outcome' = "ValueError: shape mismatch"
          /\ pc' = "done"
          /\ img' = img
    /\ UNCHANGED <<n_class, label_names, colors, cmap, ax, figs, shown, built,
                   l, legend_handles, ret>>
    /\ UNCHANGED args

\* A variant of lines 92-94 that opens a figure whether or not ax was given.
EnsureAx_AlwaysNew ==
    /\ pc = "ax"
    /\ figs' = figs + 1
    /\ ax' = Some("new")
    /\ pc' = "imshow"
    /\ UNCHANGED <<outcome, n_class, label_names, colors, cmap, img, shown,
                   built, l, legend_handles, ret>>
    /\ UNCHANGED args

\* lines 92-94
EnsureAx ==
    /\ pc = "ax"
    /\ IF ax = None
       THEN /\ figs' = figs + 1
            /\ ax' = Some("new")
       ELSE /\ figs' = figs
            /\ ax' = ax
    /\ pc' = "imshow"
    /\ UNCHANGED <<outcome, n_class, label_names, colors, cmap, img, shown,
                   built, l, legend_handles, ret>>
    /\ UNCHANGED args

\* line 96
Imshow ==
    /\ pc = "imshow"
    /\ shown' = [shown EXCEPT ![Get(ax)] = Append(@, img)]
    /\ pc' = "legend"
    /\ UNCHANGED <<outcome, n_class, label_names, colors, cmap, img, ax, figs,
                   built, l, legend_handles, ret>>
    /\ UNCHANGED args

\* line 101: Python's l / (n_class - 1) raises on a zero divisor.
DivisionRaises == Get(n_class) - 1 = 0 /\ ~NClassIsNumpy

\* line 101: Patch(color=cmap(l / (n_class - 1)), label=label_name)
LegendEntry(cm, i, nc, name) ==
    [color |-> CmapCall(cm, NpDivide(i, nc - 1)), label |-> name]

\* lines 99-101, one iteration
LegendStep ==
    /\ pc = "legend"
    /\ l < Len(Get(label_names))
    /\ \/ /\ ~DivisionRaises
          /\ legend_handles' =
                 Append(legend_handles,
                        LegendEntry(Get(cmap), l, Get(n_class), Get(label_names)[l + 1]))
          /\ l' = l + 1
          /\ pc' = pc
          /\ outcome' = outcome
       \/ /\ DivisionRaises
          /\ outcome' = "ZeroDivisionError"
          /\ pc' = "done"
          /\ UNCHANGED <<legend_handles, l>>
    /\ UNCHANGED <<n_class, label_names, colors, cmap, img, ax, figs, shown,
                   built, ret>>
    /\ UNCHANGED args

\* line 103
Return ==
    /\ pc = "legend"
    /\ l = Len(Get(label_names))
    /\ ret' = Some([ax |-> Get(ax), legend_handles |-> legend_handles])
    /\ outcome' = "returned"
    /\ pc' = "done"
    /\ UNCHANGED <<n_class, label_names, colors, cmap, img, ax, figs, shown,
                   built, l, legend_handles>>
    /\ UNCHANGED args

Next ==
    \/ ResolveNClass
    \/ CheckColors
    \/ CheckRange
    \/ DefaultNames
    \/ BuildCmap
    \/ ComputeImg
    \/ OverwriteIgnored
    \/ EnsureAx
    \/ Imshow
    \/ LegendStep
    \/ Return

Spec == Init /\ [][Next]_vars

----------------------------------------------------------------------------
\* What the claims speak of.

\* n_class as the documentation resolves it from the arguments.
ExpectedNClass ==
    IF arg_names # None THEN Len(Get(arg_names))
    ELSE IF arg_colors # None THEN Len(Get(arg_colors))
    ELSE LabelMax

ColorsMismatch == arg_colors # None /\ Len(Get(arg_colors)) # ExpectedNClass
LabelOutOfRange == LabelMax >= ExpectedNClass

\* ignore_color is an RGB triple, as documented.
DocumentedIgnore == Len(arg_ignore) = 3

\* A call that passes both validations, with documented arguments.
ValidCall == ~ColorsMismatch /\ ~LabelOutOfRange /\ DocumentedIgnore

PastColorCheck == pc \notin {"resolve", "check_colors"}
PastRangeCheck == pc \notin {"resolve", "check_colors", "check_range"}
PastComputeImg == pc \in {"ignore", "ax", "imshow", "legend", "done"}
PastOverwrite == pc \in {"ax", "imshow", "legend", "done"}

Raised == outcome \notin {"running", "returned"}
NothingDrawn == figs = 0 /\ \A a \in DOMAIN shown : shown[a] = <<>>

\* The images handed to a drawing surface.
RenderedImages == UNION {{shown[a][k] : k \in 1..Len(shown[a])} : a \in DOMAIN shown}

\* Entry v of the caller's colors, normalized and opaque.
UserEntry(v) == ToRGBA(Div255(Get(arg_colors)[v + 1]))

\* C1: when colors is given and its length differs from n_class, the call
\* ends in an InvalidColorCount error instead of going on.
C1_InvalidColorCountRaised ==
    (ColorsMismatch /\ PastColorCheck) => (pc = "done" /\ outcome = "InvalidColorCount")

\* C2: when label.max() >= n_class, the call ends in an OutOfRangeClass
\* error instead of going on.
C2_OutOfRangeClassRaised ==
    (LabelOutOfRange /\ PastRangeCheck) => (pc = "done" /\ outcome = "OutOfRangeClass")

\* C3: once lines 88-90 ran with an RGB ignore_color on a grid that has a
\* negative pixel, the assignment succeeded and every negative pixel has
\* the colour ignore_color / 255 per channel.
C3_IgnoredPixelsGetIgnoreColor ==
    (DocumentedIgnore /\ PastOverwrite /\ \E p \in Pixels : label[p] < 0) =>
        /\ ~Raised
        /\ \A p \in Pixels :
              label[p] < 0 => SubSeq(img[p], 1, 3) = Div255(arg_ignore)

\* C4: a valid call with n_class >= 2 renders an image in which every
\* pixel of class v, 0 <= v < n_class, has the colour
\* palette(v / (n_class - 1)), which is the legend colour of class v and,
\* with user colors, entry v of the list.
C4_PixelColorIsPaletteEntry ==
    (/\ ValidCall
     /\ ExpectedNClass >= 2
     /\ \E p \in Pixels : 0 <= label[p] /\ label[p] < ExpectedNClass) =>
        /\ ~Raised
        /\ pc = "done" => RenderedImages # {}
        /\ \A im \in RenderedImages : \A p \in Pixels :
              (0 <= label[p] /\ label[p] < ExpectedNClass) =>
                  /\ im[p] = CmapCall(Get(cmap), NpDivide(label[p], ExpectedNClass - 1))
                  /\ arg_colors # None => im[p] = UserEntry(label[p])
                  /\ outcome = "returned" =>
                        /\ label[p] + 1 <= Len(legend_handles)
                        /\ legend_handles[label[p] + 1].color = im[p]

\* C5: with colors of length n_class, the call returns a legend whose i-th
\* entry has the colour colors[i] / 255, for every i in 0..n_class-1.
C5_LegendColorsRoundTrip ==
    (arg_colors # None /\ ~ColorsMismatch /\ DocumentedIgnore /\ pc = "done") =>
        /\ outcome = "returned"
        /\ \A i \in 0..(ExpectedNClass - 1) :
              /\ i + 1 <= Len(legend_handles)
              /\ legend_handles[i + 1].color = UserEntry(i)

\* C6: a valid call with label_names of length n returns a legend of
\* exactly n entries, the i-th carrying label_names[i].
C6_LegendFollowsLabelNames ==
    (arg_names # None /\ ValidCall /\ pc = "done") =>
        /\ outcome = "returned"
        /\ Len(legend_handles) = Len(Get(arg_names))
        /\ \A i \in 1..Len(Get(arg_names)) :
              legend_handles[i].label = Get(arg_names)[i]

\* C7: with n_class = 1 no division by zero happens: every pixel with a
\* non-negative label has the single palette entry, palette(0), and the
\* legend loop does not raise ZeroDivisionError.
C7_SingleClassNoZeroDivision ==
    (ExpectedNClass = 1 /\ PastComputeImg) =>
        /\ outcome # "ZeroDivisionError"
        /\ pc = "ignore" =>
              \A p \in Pixels : label[p] >= 0 => img[p] = CmapEntry(Get(cmap), 0)

\* C8: the returned legend has exactly one entry per class index
\* 0..n_class-1.
C8_LegendHasNClassEntries ==
    outcome = "returned" => Len(legend_handles) = ExpectedNClass

\* C9: in a call where the color-count check or the label-range check
\* fails, no figure is created and nothing is drawn.
C9_NoDrawingAfterFailedValidation ==
    (ColorsMismatch \/ LabelOutOfRange) => NothingDrawn

\* C10: a call that returned drew exactly one image, on the given ax when
\* there is one (no figure created) and else on the one new axis, returned
\* that axis, and left the caller's label, label_names, colors and
\* ignore_color as they were at entry.
C10_OneSurfaceNothingElse ==
    outcome = "returned" =>
        /\ arg_ax # None =>
              /\ figs = 0
              /\ shown["given"] = <<img>>
              /\ shown["new"] = <<>>
              /\ Get(ret).ax = "given"
        /\ arg_ax = None =>
              /\ figs = 1
              /\ shown["new"] = <<img>>
              /\ shown["given"] = <<>>
              /\ Get(ret).ax = "new"
        /\ label = pre.label
        /\ arg_names = pre.label_names
        /\ arg_colors = pre.colors
        /\ arg_ignore = pre.ignore_color

\* A call with ax given, user colors and default names has drawn a grid
\* with a labelled pixel and returned a legend.
C10_Witness ==
    /\ outcome = "returned"
    /\ arg_ax # None
    /\ arg_colors # None
    /\ arg_names = None
    /\ \E p \in Pixels : label[p] >= 0
    /\ shown["given"] = <<img>>
    /\ Len(Get(ret).legend_handles) > 0

----------------------------------------------------------------------------
\* What the body does establish, up to the statement that fails.

\* After line 86 of a valid call with n_class >= 2, each in-range pixel has
\* the palette colour of its class; with user colors, entry v of the list.
ImgAfterLine86 ==
    (ValidCall /\ ExpectedNClass >= 2 /\ pc = "ignore") =>
        \A p \in Pixels :
            (0 <= label[p] /\ label[p] < ExpectedNClass) =>
                /\ img[p] = CmapCall(Get(cmap), NpDivide(label[p], ExpectedNClass - 1))
                /\ arg_colors # None => img[p] = UserEntry(label[p])

\* With an RGB ignore_color, lines 88-90 end every call.
DocumentedCallsRaise ==
    (DocumentedIgnore /\ pc = "done") => outcome = "ValueError: shape mismatch"

\* A call that gets past line 90 with label_names given and n_class >= 2
\* returns a legend that follows label_names.
LegendWhenReturned ==
    (outcome = "returned" /\ arg_names # None) =>
        /\ Len(legend_handles) = Len(Get(arg_names))
        /\ \A i \in 1..Len(Get(arg_names)) :
              legend_handles[i].label = Get(arg_names)[i]

====
